---- MODULE Spec2Model ----
(***************************************************************************)
(* A model of the selective project-copy tool (src/專案備份/專案備份.py).   *)
(*                                                                         *)
(* These specifications share this module:                                 *)
(*   SpecPath  the destination resolver and the checks that                *)
(*             _start_file_calculation makes before it starts a worker,    *)
(*             over every pair of short path strings;                      *)
(*   SpecWalk  the directory walk of calculation_thread with is_excluded,  *)
(*             over every small tree and rule list;                        *)
(*   Spec      the controller: the Tk main thread (button handlers and     *)
(*             root.after callbacks), the calculation and copy threads,    *)
(*             in behaviours of at most MaxEvents operations of the user;  *)
(*   SpecErr   the same controller in behaviours of at most MaxEventsErr   *)
(*             operations;                                                 *)
(*   SpecLive  SpecErr with threads that are scheduled and an event loop   *)
(*             that runs its callbacks;                                    *)
(*   SpecProgress  the loop of copy_thread and its progress reports, over  *)
(*             plans of every size up to MaxFiles;                         *)
(*   SpecConfig    load_config over the states of config.json.             *)
(*                                                                         *)
(* In the controller a message box is part of the handler that shows it,   *)
(* a confirmation is answered with yes, and the preview window, which      *)
(* only reads the plan, is left out.                                       *)
(*                                                                         *)
(* Strings are sequences of one-character strings, so that splitting,      *)
(* prefix tests and lower-casing are computed and not assumed.  A path is  *)
(* a record [drive, text]: drive is the volume prefix that                 *)
(* os.path.splitdrive would split off ("" for none) and text is the rest,  *)
(* with "/" as the separator.                                              *)
(***************************************************************************)
EXTENDS Integers, Sequences, FiniteSets, TLC

(***************************************************************************)
(* Strings and paths (os.path as used by the program)                      *)
(***************************************************************************)

\* The characters path texts are built from.
PathChars == {"/", "a", "b", "."}

\* The volume prefixes: none, and one other volume.
Drives == {"", "D:"}

EmptyPath == [drive |-> "", text |-> <<>>]

\* All sequences over S of length at most n.
StringsUpTo(S, n) == UNION {[1..k -> S] : k \in 0..n}

\* Python truthiness of a str: the empty string is false.
IsEmptyStr(p) == p.drive = "" /\ p.text = <<>>

\* The index of the last occurrence of ch in s, 0 when there is none (str.rfind + 1).
RFind(s, ch) ==
    LET hits == {i \in 1..Len(s) : s[i] = ch}
    IN  IF hits = {} THEN 0 ELSE CHOOSE i \in hits : \A j \in hits : j <= i

\* s without its trailing "/" characters (str.rstrip).
RECURSIVE RStripSep(_)
RStripSep(s) ==
    IF s # <<>> /\ s[Len(s)] = "/" THEN RStripSep(SubSeq(s, 1, Len(s) - 1)) ELSE s

\* os.path.basename: what follows the last separator.
basename(p) == SubSeq(p.text, RFind(p.text, "/") + 1, Len(p.text))

\* os.path.dirname: what precedes the last separator, without trailing
\* separators unless it consists of separators only.  The drive stays with it.
dirname(p) ==
    LET head == SubSeq(p.text, 1, RFind(p.text, "/"))
    IN  [drive |-> p.drive,
         text  |-> IF RStripSep(head) = <<>> THEN head ELSE RStripSep(head)]

\* A split at the last dot wherever it stands.
splitext_at_last_dot(name) ==
    LET dot == RFind(name, ".")
    IN  IF dot > 0
        THEN <<SubSeq(name, 1, dot - 1), SubSeq(name, dot, Len(name))>>
        ELSE <<name, <<>> >>

\* os.path.splitext of a name without separators: the extension starts at the
\* last dot, unless only dots precede that dot.
splitext(name) ==
    LET dot == RFind(name, ".")
    IN  IF dot > 0 /\ \E i \in 1..(dot - 1) : name[i] # "."
        THEN <<SubSeq(name, 1, dot - 1), SubSeq(name, dot, Len(name))>>
        ELSE <<name, <<>> >>

\* os.path.join(dir, name) for a name that is neither absolute nor has a drive.
join(dir, name) ==
    IF IsEmptyStr(dir) THEN [drive |-> "", text |-> name]
    ELSE IF dir.text = <<>> \/ dir.text[Len(dir.text)] = "/"
         THEN [drive |-> dir.drive, text |-> dir.text \o name]
         ELSE [drive |-> dir.drive, text |-> dir.text \o <<"/">> \o name]

\* str.split("/"), scanning from position i with cur the component read so far.
RECURSIVE split_sep(_, _, _)
split_sep(s, i, cur) ==
    IF i > Len(s) THEN <<cur>>
    ELSE IF s[i] = "/" THEN <<cur>> \o split_sep(s, i + 1, <<>>)
    ELSE split_sep(s, i + 1, Append(cur, s[i]))

\* The components commonpath compares: empty ones and "." are dropped.
components(p) ==
    SelectSeq(split_sep(p.text, 1, <<>>), LAMBDA c : c # <<>> /\ c # <<".">>)

isabs(p) == p.text # <<>> /\ p.text[1] = "/"

\* The longest common prefix of two sequences.
RECURSIVE common_prefix(_, _)
common_prefix(a, b) ==
    IF a = <<>> \/ b = <<>> \/ Head(a) # Head(b) THEN <<>>
    ELSE <<Head(a)>> \o common_prefix(Tail(a), Tail(b))

\* os.path.commonpath([p]) and os.path.commonpath([p, q]).  The result is
\* drive + root + "/".join(common components), kept here as that triple;
\* ValueError stands for the exception raised when the paths mix
\* absolute and relative or lie on different drives.
ValueError == [drive |-> "ValueError", abs |-> FALSE, comps |-> <<>>]

commonpath1(p) == [drive |-> p.drive, abs |-> isabs(p), comps |-> components(p)]

commonpath2(p, q) ==
    IF isabs(p) # isabs(q) \/ p.drive # q.drive THEN ValueError
    ELSE [drive |-> p.drive, abs |-> isabs(p),
          comps |-> common_prefix(components(p), components(q))]

(***************************************************************************)
(* Timestamps (datetime.now().strftime("%Y%m%d_%H%M%S"))                   *)
(***************************************************************************)

DigitChars == <<"0", "1", "2", "3", "4", "5", "6", "7", "8", "9">>

\* n written with w decimal digits, zero padded.
RECURSIVE zero_padded(_, _)
zero_padded(n, w) ==
    IF w = 0 THEN <<>> ELSE Append(zero_padded(n \div 10, w - 1), DigitChars[(n % 10) + 1])

strftime(t) ==
    zero_padded(t.Y, 4) \o zero_padded(t.Mo, 2) \o zero_padded(t.D, 2) \o <<"_">>
    \o zero_padded(t.H, 2) \o zero_padded(t.Mi, 2) \o zero_padded(t.S, 2)

\* The instants the clock takes, in order.
Times == << [Y |-> 2024, Mo |-> 1, D |-> 2, H |-> 3, Mi |-> 4, S |-> 5],
            [Y |-> 2024, Mo |-> 12, D |-> 31, H |-> 23, Mi |-> 59, S |-> 59] >>

\* None of Python where a path is expected.
None == [drive |-> "None", text |-> <<>>]

\* get_actual_dest_dir with the widget values and the clock passed in.
get_actual_dest_dir(base_dest_dir, append_timestamp, t) ==
    IF IsEmptyStr(base_dest_dir) THEN None
    ELSE IF append_timestamp
    THEN LET se       == splitext(basename(base_dest_dir))
             dir_name == dirname(base_dest_dir)
             new_name == se[1] \o <<"_">> \o strftime(t) \o se[2]
         IN  join(dir_name, new_name)
    ELSE base_dest_dir

(***************************************************************************)
(* The checks of _start_file_calculation before a worker is started        *)
(***************************************************************************)

\* A containment test on the texts: the destination begins like the source.
dest_in_source_by_text(source_dir, actual_dest_dir) ==
    source_dir = actual_dest_dir
    \/ (/\ source_dir.drive = actual_dest_dir.drive
        /\ Len(source_dir.text) <= Len(actual_dest_dir.text)
        /\ SubSeq(actual_dest_dir.text, 1, Len(source_dir.text)) = source_dir.text)

\* The containment test of line 125, with the except ValueError: pass of 128.
dest_in_source(source_dir, actual_dest_dir) ==
    source_dir = actual_dest_dir
    \/ (commonpath2(source_dir, actual_dest_dir) # ValueError
        /\ commonpath1(source_dir) = commonpath2(source_dir, actual_dest_dir))

\* What _start_file_calculation decides for the given widget values:
\* "unset", "not_dir" and "nested" are the three error boxes, "start" means
\* the worker is started.  isdir is os.path.isdir(source_dir).
validate(source_dir, actual_dest_dir, isdir) ==
    IF IsEmptyStr(source_dir) \/ actual_dest_dir = None THEN "unset"
    ELSE IF ~isdir THEN "not_dir"
    ELSE IF dest_in_source(source_dir, actual_dest_dir) THEN "nested"
    ELSE "start"

(***************************************************************************)
(* Exclusion rules                                                         *)
(***************************************************************************)

\* str.lower on the letters names are built from.
lower_char(c) ==
    IF c = "A" THEN "a" ELSE IF c = "B" THEN "b" ELSE IF c = "S" THEN "s" ELSE c

lower(s) == [i \in 1..Len(s) |-> lower_char(s[i])]

startswith(s, prefix) ==
    Len(prefix) <= Len(s) /\ SubSeq(s, 1, Len(prefix)) = prefix

\* {f.lower() for f in a_list}: update_lower_sets and load_config.
lower_set(a_list) == {lower(a_list[i]) : i \in 1..Len(a_list)}

\* A test of the name as it is written against the lower-cased sets.
is_excluded_as_written(folder_name, EXACT_LOWER, PREFIX_LOWER) ==
    \/ folder_name \in EXACT_LOWER
    \/ \E prefix \in PREFIX_LOWER : startswith(folder_name, prefix)

\* is_excluded, with the two global sets it reads passed in.
is_excluded(folder_name, EXACT_LOWER, PREFIX_LOWER) ==
    LET lower_name == lower(folder_name)
    IN  \/ lower_name \in EXACT_LOWER
        \/ \E prefix \in PREFIX_LOWER : startswith(lower_name, prefix)

(***************************************************************************)
(* Directory trees and the walk of calculation_thread                      *)
(***************************************************************************)

\* A tree is [parent, name, files], three sequences indexed by directory:
\* directory 1 is the root (parent 0, name <<>>), parent[d] < d otherwise;
\* files[d] is the listing of d's regular files, in listing order.
Dirs(tree) == 1..Len(tree.parent)

\* The child directories of d in listing order (os.walk's dirs).
RECURSIVE children_from(_, _, _)
children_from(tree, d, n) ==
    IF n > Len(tree.parent) THEN <<>>
    ELSE (IF tree.parent[n] = d THEN <<n>> ELSE <<>>) \o children_from(tree, d, n + 1)

children(tree, d) == children_from(tree, d, 2)

\* The names on the way from the root to d: os.path.relpath(dirpath, source_dir).
RECURSIVE rel_dir(_, _)
rel_dir(tree, d) ==
    IF d = 1 THEN <<>> ELSE Append(rel_dir(tree, tree.parent[d]), tree.name[d])

\* The entries line 160-165 append for directory d: one (source_path,
\* dest_path) per file, each path kept as <<root, relative path>>.
file_entries(tree, d, source_dir, actual_dest_dir) ==
    [i \in 1..Len(tree.files[d]) |->
        LET relative_path == Append(rel_dir(tree, d), tree.files[d][i])
        IN  [src |-> <<source_dir, relative_path>>,
             dst |-> <<actual_dest_dir, relative_path>>]]

\* A walk in progress: the directories os.walk has still to yield (the next
\* one first), and the thread's temp_file_list and count.
new_walk == [stack |-> <<1>>, temp_file_list |-> <<>>, count |-> 0]

\* An iteration that leaves out the files of an excluded directory and
\* descends into all of dirs.
walk_step_files_only(tree, w, source_dir, actual_dest_dir, ignore_exclusions, EXACT_LOWER, PREFIX_LOWER) ==
    LET d == Head(w.stack)
        entries == IF ~ignore_exclusions /\ d # 1
                      /\ is_excluded(tree.name[d], EXACT_LOWER, PREFIX_LOWER)
                   THEN <<>>
                   ELSE file_entries(tree, d, source_dir, actual_dest_dir)
    IN  [stack |-> children(tree, d) \o Tail(w.stack),
         temp_file_list |-> w.temp_file_list \o entries,
         count |-> w.count + Len(entries)]

\* One iteration of the for loop over os.walk(source_dir, topdown=True): the
\* next directory is yielded, its dirs are filtered in place unless
\* ignore_exclusions, its files are appended; os.walk then descends into
\* what is left of dirs before it goes on with the rest.
walk_step(tree, w, source_dir, actual_dest_dir, ignore_exclusions, EXACT_LOWER, PREFIX_LOWER) ==
    LET d == Head(w.stack)
        dirs == IF ignore_exclusions THEN children(tree, d)
                ELSE SelectSeq(children(tree, d),
                        LAMBDA c : ~is_excluded(tree.name[c], EXACT_LOWER, PREFIX_LOWER))
        entries == file_entries(tree, d, source_dir, actual_dest_dir)
    IN  [stack |-> dirs \o Tail(w.stack),
         temp_file_list |-> w.temp_file_list \o entries,
         count |-> w.count + Len(entries)]

(***************************************************************************)
(* The file system and the inputs the user can give                        *)
(***************************************************************************)

Git            == <<".", "g", "i", "t">>
NodeModules    == <<"n", "o", "d", "e", "_", "m", "o", "d", "u", "l", "e", "s">>
FirebaseExport == <<"f", "i", "r", "e", "b", "a", "s", "e", "-", "e", "x", "p", "o", "r", "t", "-">>
Sub            == <<"s", "u", "b">>
Pkg            == <<"p", "k", "g">>

\* "Sub", a rule as a user writes it.
SubTyped == <<"S", "u", "b">>

\* DEFAULT_EXCLUDED_FOLDERS_EXACT and DEFAULT_EXCLUDED_FOLDERS_PREFIX, as the
\* lists load_config makes of them.
DEFAULT_EXCLUDED_FOLDERS_EXACT  == <<Git, NodeModules>>
DEFAULT_EXCLUDED_FOLDERS_PREFIX == <<FirebaseExport>>

\* The tree {file1.txt, .git/config, node_modules/pkg/index.js, sub/file2.txt}.
ExampleTree ==
    [parent |-> <<0, 1, 1, 3, 1>>,
     name   |-> << <<>>, Git, NodeModules, Pkg, Sub >>,
     files  |-> << << <<"f", "1">> >>, << <<"c">> >>, <<>>, << <<"j">> >>, << <<"f", "2">> >> >>]

\* The project the controller works on: {f1, .git/c, sub/f2}.
ProjectTree ==
    [parent |-> <<0, 1, 1>>,
     name   |-> << <<>>, Git, Sub >>,
     files  |-> << << <<"f", "1">> >>, << <<"c">> >>, << <<"f", "2">> >> >>]

PathA    == [drive |-> "", text |-> <<"/", "a">>]
PathN    == [drive |-> "", text |-> <<"/", "n">>]
PathD    == [drive |-> "", text |-> <<"/", "d">>]
PathAB   == [drive |-> "", text |-> <<"/", "a", "b">>]
PathASub == [drive |-> "", text |-> <<"/", "a", "/", "s", "u", "b">>]

\* os.path.isdir: /a holds the project, /d and /ab are empty folders, /a/sub
\* is the project's sub folder; /n does not exist.
isdir(p) == p \in {PathA, PathD, PathAB, PathASub}

\* What the user may pick in the two askdirectory dialogs.
SourceChoices == {PathA}
DestChoices   == {PathD, PathAB, PathASub}

\* What the user may type into the two entries (lines 557 and 565): nothing
\* at all, a folder that does not exist, a folder below the source.
SourceTexts == {EmptyPath, PathN}
DestTexts   == {EmptyPath, PathASub}

(***************************************************************************)
(* State                                                                   *)
(***************************************************************************)

VARIABLES
    \* The module globals and the widget states, all owned by the main thread:
    \* source_dir, dest_dir, append_timestamp (the three Tk variables),
    \* the state of the four buttons (TRUE is tk.NORMAL), files_to_copy_list,
    \* total_files_count, last_calculation_mode, progress_bar, status_label,
    \* the two rule lists and the two lower-cased sets.
    g,
    \* config.json: [exists |-> FALSE] or what save_config wrote last.
    config_file,
    \* Whether the rule editor (a modal window) is open and the rule lists it
    \* showed when it opened; for the record, how it was closed last and the
    \* lists a cancel discarded.
    editor,
    \* The calculation threads started so far, in order of start.
    builds,
    \* The copy threads started so far, in order of start.
    copies,
    \* The callbacks handed to root.after(0, ...) and not yet run, oldest first.
    after_queue,
    \* The destination paths a copy has written.
    dest_files,
    \* The position of datetime.now() in Times.
    clock,
    \* How many events the behaviour may still have: operations of the user
    \* and ticks of the clock.
    events_left,
    \* The error box the main thread showed in its latest handler, if any.
    last_error,
    \* The calculation thread whose result files_to_copy_list holds (0: none).
    plan_build,
    \* SpecPath: the request under test, the destination resolved for it and
    \* what was decided for it
    p_in, p_dest, p_out,
    \* SpecWalk: the tree and rules under test, the walk, and whether it ended
    w_in, w_walk, w_done,
    \* SpecProgress: a copy thread on its own, the loop position and what it
    \* has handed to root.after
    n_run,
    \* SpecConfig: the config.json found at start, and how load_config ended
    c_file, c_out

main_vars == <<g, config_file, editor, builds, copies, after_queue, dest_files,
               clock, events_left, last_error, plan_build>>

path_vars == <<p_in, p_dest, p_out>>
walk_vars == <<w_in, w_walk, w_done>>
progress_vars == <<n_run>>
config_vars == <<c_file, c_out>>

\* The values these variables keep outside their own specification.
PathIdle == p_in = [src |-> EmptyPath, dst |-> EmptyPath, flag |-> FALSE, t |-> 1, isdir |-> FALSE]
            /\ p_dest = None /\ p_out = "idle"
WalkIdle == w_in = [tree |-> ProjectTree, exact |-> <<>>, prefix |-> <<>>, ignore |-> FALSE]
            /\ w_walk = new_walk /\ w_done = FALSE
ConfigIdle == c_file = [kind |-> "missing"] /\ c_out = [pc |-> "idle"]
ProgressIdle == n_run = [total_files_count |-> 0, i |-> 0, copied_count |-> 0,
                         reports |-> 0, final_count |-> 0, pc |-> "idle"]

(***************************************************************************)
(* SpecPath: the checks before a worker starts, over all short paths       *)
(***************************************************************************)

\* The longest source and destination texts tried.
MaxSrcLen == 2
MaxDstLen == 4

PathInputChars == {"/", "a", "."}

PathASlashB == [drive |-> "", text |-> <<"/", "a", "/", "b">>]
PathABZip   == [drive |-> "", text |-> <<"/", "a", "/", "b", ".", "z", "i", "p">>]

\* The requests tried: every short source and destination, and /a to /a/b
\* and to /a/b.zip.
PathInputs ==
    {r \in [src   : [drive : {""}, text : StringsUpTo(PathInputChars, MaxSrcLen)],
            dst   : [drive : Drives, text : StringsUpTo(PathInputChars, MaxDstLen)],
            flag  : BOOLEAN,
            t     : DOMAIN Times,
            isdir : BOOLEAN] :
        /\ (~r.flag => r.t = 1)
        /\ (~r.isdir => ~r.flag /\ r.dst.drive = "")}
    \cup [src : {PathA}, dst : {PathASlashB, PathABZip}, flag : BOOLEAN, t : {1}, isdir : {TRUE}]

InitPath == p_in \in PathInputs /\ p_dest = None /\ p_out = "idle"

\* The request is made: lines 112-129.
PathRequest ==
    /\ p_out = "idle"
    /\ p_dest' = get_actual_dest_dir(p_in.dst, p_in.flag, Times[p_in.t])
    /\ p_out' = validate(p_in.src, p_dest', p_in.isdir)
    /\ UNCHANGED p_in

(***************************************************************************)
(* SpecWalk: the walk over all small trees and rule lists                  *)
(***************************************************************************)

\* The most directories a tree under test has below its root.
MaxSubdirs == 2

WalkDirNames == {<<"a">>, <<"A">>, <<"a", "b">>, <<"b">>}
WalkFileName == <<"a">>
WalkExactLists  == {<<>>, << <<"a">> >>, << <<"A">> >>, << <<"b">>, <<"a", "b">> >>}
WalkPrefixLists == {<<>>, << <<"a">> >>, << <<"A">> >>}

\* Trees a file system can hold: the names in one directory differ.
WellFormed(tree) ==
    /\ tree.parent[1] = 0 /\ tree.name[1] = <<>>
    /\ \A i \in 2..Len(tree.parent) :
        /\ tree.parent[i] \in 1..(i - 1)
        /\ tree.name[i] # <<>>
        /\ \A k \in 1..Len(tree.files[tree.parent[i]]) : tree.files[tree.parent[i]][k] # tree.name[i]
        /\ \A j \in 2..Len(tree.parent) :
            (i # j /\ tree.parent[i] = tree.parent[j]) => tree.name[i] # tree.name[j]

TreesOfSize(n) ==
    {tree \in [parent : [1..n -> 0..n], name : [1..n -> WalkDirNames \cup {<<>>}],
               files : [1..n -> {<<>>, <<WalkFileName>>}]] : WellFormed(tree)}

WalkInputs ==
    [tree : UNION {TreesOfSize(n) : n \in 1..(MaxSubdirs + 1)},
     exact : WalkExactLists, prefix : WalkPrefixLists, ignore : BOOLEAN]
    \cup [tree : {ExampleTree}, exact : {DEFAULT_EXCLUDED_FOLDERS_EXACT},
          prefix : {DEFAULT_EXCLUDED_FOLDERS_PREFIX}, ignore : BOOLEAN]

InitWalk == w_in \in WalkInputs /\ w_walk = new_walk /\ w_done = FALSE

\* One iteration of the loop of line 153.
WalkStep ==
    /\ ~w_done /\ w_walk.stack # <<>>
    /\ w_walk' = walk_step(w_in.tree, w_walk, PathA, PathD, w_in.ignore,
                           lower_set(w_in.exact), lower_set(w_in.prefix))
    /\ UNCHANGED <<w_in, w_done>>

\* os.walk is exhausted: the list and the count are handed over (line 168).
WalkEnd ==
    /\ ~w_done /\ w_walk.stack = <<>>
    /\ w_done' = TRUE
    /\ UNCHANGED <<w_in, w_walk>>

(***************************************************************************)
(* The controller: handlers of the main thread, as functions of the        *)
(* globals G                                                               *)
(***************************************************************************)

\* The most events (operations of the user, clock ticks) in one behaviour,
\* and in one behaviour of the specification of the error cases.
MaxEvents    == 4
MaxEventsErr == 3

\* The divisor of line 253.
UpdateDivisor == 100

Status(kind, copied, total) == [kind |-> kind, copied |-> copied, total |-> total]

\* A reset that re-enables the calculate buttons and leaves the rest.
reset_calculation_keeps_plan(G) ==
    [G EXCEPT !.status_label = Status("idle", 0, 0),
              !.calculate_button = TRUE,
              !.calculate_full_button = TRUE]

\* reset_calculation, lines 80-97.
reset_calculation(G) ==
    [G EXCEPT !.files_to_copy_list = <<>>,
              !.total_files_count = 0,
              !.status_label = Status("idle", 0, 0),
              !.copy_button = FALSE,
              !.calculate_button = TRUE,
              !.progress_bar = [value |-> 0, maximum |-> 100],
              !.preview_button = FALSE,
              !.last_calculation_mode = "None",
              !.calculate_full_button = TRUE]

\* save_config, lines 388-404: the document written to config.json.
save_config(G) ==
    [exists           |-> TRUE,
     source_dir       |-> G.source_dir,
     dest_dir         |-> G.dest_dir,
     excluded_exact   |-> G.excluded_exact_list,
     excluded_prefix  |-> G.excluded_prefix_list,
     append_timestamp |-> G.append_timestamp]

NoConfigFile ==
    [exists           |-> FALSE,
     source_dir       |-> EmptyPath,
     dest_dir         |-> EmptyPath,
     excluded_exact   |-> DEFAULT_EXCLUDED_FOLDERS_EXACT,
     excluded_prefix  |-> DEFAULT_EXCLUDED_FOLDERS_PREFIX,
     append_timestamp |-> FALSE]

\* The globals of lines 19-39 and the Tk variables and widgets as created.
GlobalsAtImport ==
    [source_dir |-> EmptyPath, dest_dir |-> EmptyPath, append_timestamp |-> FALSE,
     calculate_button |-> TRUE, calculate_full_button |-> TRUE,
     copy_button |-> FALSE, preview_button |-> FALSE,
     files_to_copy_list |-> <<>>, total_files_count |-> 0,
     last_calculation_mode |-> "None",
     progress_bar |-> [value |-> 0, maximum |-> 100],
     status_label |-> Status("idle", 0, 0),
     excluded_exact_list |-> <<>>, excluded_prefix_list |-> <<>>,
     EXCLUDED_FOLDERS_EXACT_LOWER |-> {}, EXCLUDED_FOLDERS_PREFIX_LOWER |-> {}]

\* A reload that leaves the lower-cased sets as they are (without lines
\* 381-382).
load_config_keeps_sets(G, cfg) ==
    [G EXCEPT !.source_dir = IF ~IsEmptyStr(cfg.source_dir) /\ isdir(cfg.source_dir)
                             THEN cfg.source_dir ELSE @,
              !.dest_dir   = IF ~IsEmptyStr(cfg.dest_dir) /\ isdir(cfg.dest_dir)
                             THEN cfg.dest_dir ELSE @,
              !.excluded_exact_list  = cfg.excluded_exact,
              !.excluded_prefix_list = cfg.excluded_prefix,
              !.append_timestamp = cfg.append_timestamp]

\* load_config, lines 351-386, reading the document cfg (NoConfigFile gives
\* what config.get returns for every key of an empty config).
load_config(G, cfg) ==
    [G EXCEPT !.source_dir = IF ~IsEmptyStr(cfg.source_dir) /\ isdir(cfg.source_dir)
                             THEN cfg.source_dir ELSE @,
              !.dest_dir   = IF ~IsEmptyStr(cfg.dest_dir) /\ isdir(cfg.dest_dir)
                             THEN cfg.dest_dir ELSE @,
              !.excluded_exact_list  = cfg.excluded_exact,
              !.excluded_prefix_list = cfg.excluded_prefix,
              !.EXCLUDED_FOLDERS_EXACT_LOWER  = lower_set(cfg.excluded_exact),
              !.EXCLUDED_FOLDERS_PREFIX_LOWER = lower_set(cfg.excluded_prefix),
              !.append_timestamp = cfg.append_timestamp]

\* update_lower_sets, lines 419-423.
update_lower_sets(G) ==
    [G EXCEPT !.EXCLUDED_FOLDERS_EXACT_LOWER  = lower_set(G.excluded_exact_list),
              !.EXCLUDED_FOLDERS_PREFIX_LOWER = lower_set(G.excluded_prefix_list)]

\* The reset before a calculation without line 132.
begin_calculation_keeps_count(G, mode) ==
    [G EXCEPT !.files_to_copy_list = <<>>,
              !.last_calculation_mode = mode,
              !.status_label = Status("calculating", 0, 0),
              !.calculate_button = FALSE,
              !.calculate_full_button = FALSE,
              !.copy_button = FALSE,
              !.preview_button = FALSE,
              !.progress_bar = [@ EXCEPT !.value = 0]]

\* _start_file_calculation once its checks have passed, lines 131-145.
begin_calculation(G, mode) ==
    [G EXCEPT !.files_to_copy_list = <<>>,
              !.total_files_count = 0,
              !.last_calculation_mode = mode,
              !.status_label = Status("calculating", 0, 0),
              !.calculate_button = FALSE,
              !.calculate_full_button = FALSE,
              !.copy_button = FALSE,
              !.preview_button = FALSE,
              !.progress_bar = [@ EXCEPT !.value = 0]]

\* update_calculation_result without lines 200-203.
update_calculation_result_buttons_left(G, calculated_list, calculated_count) ==
    LET G1 == [G EXCEPT !.files_to_copy_list = calculated_list,
                        !.total_files_count = calculated_count]
    IN  IF calculated_count > 0
        THEN [G1 EXCEPT !.status_label = Status("calculated", 0, calculated_count),
                        !.copy_button = TRUE,
                        !.preview_button = TRUE,
                        !.progress_bar = [value |-> 0, maximum |-> calculated_count]]
        ELSE [G1 EXCEPT !.status_label = Status("nothing", 0, 0),
                        !.copy_button = FALSE,
                        !.preview_button = FALSE]

\* update_calculation_result, lines 178-203.
update_calculation_result(G, calculated_list, calculated_count) ==
    LET G1 == [G EXCEPT !.files_to_copy_list = calculated_list,
                        !.total_files_count = calculated_count]
        G2 == IF calculated_count > 0
              THEN [G1 EXCEPT !.status_label = Status("calculated", 0, calculated_count),
                              !.copy_button = TRUE,
                              !.preview_button = TRUE,
                              !.progress_bar = [value |-> 0, maximum |-> calculated_count]]
              ELSE [G1 EXCEPT !.status_label = Status("nothing", 0, 0),
                              !.copy_button = FALSE,
                              !.preview_button = FALSE]
    IN  [G2 EXCEPT !.calculate_button = TRUE, !.calculate_full_button = TRUE]

\* show_error_and_reset, lines 211-214, and handle_calculation_error, 206-209:
\* an error box, then the reset.
show_error_and_reset(G) == reset_calculation(G)

handle_calculation_error(G) == show_error_and_reset(G)

\* start_copying once the user has confirmed, lines 234-236.
begin_copying(G) ==
    [G EXCEPT !.status_label = Status("copying", 0, G.total_files_count),
              !.calculate_button = FALSE,
              !.copy_button = FALSE]

\* update_progress, lines 282-286.
update_progress(G, current_count, total_count) ==
    [G EXCEPT !.progress_bar = [@ EXCEPT !.value = current_count],
              !.status_label = Status("copying", current_count, total_count)]

\* show_copy_complete, lines 271-280.
show_copy_complete(G) ==
    [G EXCEPT !.status_label = Status("complete", G.total_files_count, G.total_files_count),
              !.progress_bar = [@ EXCEPT !.value = G.total_files_count],
              !.calculate_button = TRUE]

max(a, b) == IF a >= b THEN a ELSE b

\* A report after every update_interval-th iteration and none for the last.
reports_progress_periodic(i, total_files_count) ==
    LET update_interval == max(1, total_files_count \div UpdateDivisor)
    IN  (i + 1) % update_interval = 0

\* Whether the copy thread reports after its iteration i (0-based), lines
\* 253-254.
reports_progress(i, total_files_count) ==
    LET update_interval == max(1, total_files_count \div UpdateDivisor)
    IN  (i + 1) % update_interval = 0 \/ (i + 1) = total_files_count

\* A callback handed to root.after.  kind is the function the lambda calls;
\* fl and c are the values the lambda binds (NoCount when it binds none).
NoCount == -1

Callback(kind, run, fl, c) == [kind |-> kind, run |-> run, fl |-> fl, c |-> c]

(***************************************************************************)
(* SpecProgress: the loop of copy_thread over plans of every size, every   *)
(* copy succeeding and total_files_count staying what it was at the start  *)
(***************************************************************************)

\* The longest plan tried.
MaxFiles == 400

InitProgress ==
    \E N \in 1..MaxFiles :
        n_run = [total_files_count |-> N, i |-> 0, copied_count |-> 0,
                 reports |-> 0, final_count |-> 0, pc |-> "loop"]

\* One iteration, lines 242-256: reports counts the callbacks handed to
\* root.after by line 256, final_count is the count the latest one binds.
ProgressStep ==
    /\ n_run.pc = "loop"
    /\ n_run.i < n_run.total_files_count
    /\ LET copied_count == n_run.copied_count + 1
           reports == reports_progress(n_run.i, n_run.total_files_count)
       IN  n_run' = [n_run EXCEPT !.i = @ + 1,
                                  !.copied_count = copied_count,
                                  !.reports = IF reports THEN @ + 1 ELSE @,
                                  !.final_count = IF reports THEN copied_count ELSE @]

\* The loop is exhausted: line 259.
ProgressEnd ==
    /\ n_run.pc = "loop"
    /\ n_run.i = n_run.total_files_count
    /\ n_run' = [n_run EXCEPT !.pc = "posted"]

(***************************************************************************)
(* SpecConfig: load_config over the states of config.json                  *)
(***************************************************************************)

\* A JSON value under a key of the document: tag "absent" (no such key),
\* "ok" (a value of the type save_config writes, in val), or the type found
\* instead: "null", "number" (not 0) or "list" (not empty).
Absent(val) == [tag |-> "absent", val |-> val]
Value(val) == [tag |-> "ok", val |-> val]
Mistyped(tags, val) == {[tag |-> t, val |-> val] : t \in tags}

\* config.json: missing, not readable, not JSON, JSON null, a JSON list, or
\* a JSON object with any of the five keys and possibly one more.
ConfigFiles ==
    {[kind |-> k] : k \in {"missing", "unreadable", "invalid_json", "json_null", "json_list"}}
    \cup [kind : {"json_object"},
          source_dir : {Absent(EmptyPath), Value(PathA), Value(PathN)}
                       \cup Mistyped({"null", "number", "list"}, EmptyPath),
          dest_dir : {Absent(EmptyPath), Value(PathD)} \cup Mistyped({"list"}, EmptyPath),
          excluded_exact : {Absent(<<>>), Value(<<>>), Value(<<SubTyped>>)}
                           \cup Mistyped({"null", "number"}, <<>>),
          excluded_prefix : {Absent(<<>>), Value(<<FirebaseExport>>)}
                            \cup Mistyped({"number"}, <<>>),
          append_timestamp : {Absent(FALSE), Value(TRUE), Value(FALSE)},
          unknown_key : BOOLEAN]

InitConfig == c_file \in ConfigFiles /\ c_out = [pc |-> "idle"]

\* config.get(key, default) for a key whose value is of the expected type or
\* missing.
config_get(config, key, default) ==
    IF config[key].tag = "ok" THEN config[key].val ELSE default

\* load_config, lines 351-386, of the file found.  Lines 357-366 leave
\* config = {} unless the file is there, readable and JSON; whatever JSON
\* value it holds is then taken for a dict.  What is raised after line 366 is
\* not caught: config.get of a value that is no dict (line 369),
\* os.path.isdir of a list (lines 371, 373), iterating over None or a number
\* (lines 381, 382).  A path that is null or a number is not a folder and is
\* passed over.
load_config_file(G, file) ==
    IF file.kind \in {"missing", "unreadable", "invalid_json"}
    THEN [pc |-> "returned", raised |-> "none", G |-> load_config(G, NoConfigFile)]
    ELSE IF file.kind \in {"json_null", "json_list"}
    THEN [pc |-> "raised", raised |-> "AttributeError", G |-> G]
    ELSE IF file.source_dir.tag = "list"
    THEN [pc |-> "raised", raised |-> "TypeError", G |-> G]
    ELSE LET G1 == [G EXCEPT !.source_dir =
                        IF file.source_dir.tag = "ok" /\ ~IsEmptyStr(file.source_dir.val)
                           /\ isdir(file.source_dir.val)
                        THEN file.source_dir.val ELSE @]
         IN  IF file.dest_dir.tag = "list" \/ file.excluded_exact.tag \in {"null", "number"}
                \/ file.excluded_prefix.tag \in {"null", "number"}
             THEN [pc |-> "raised", raised |-> "TypeError", G |-> G1]
             ELSE [pc |-> "returned", raised |-> "none",
                   G |-> load_config(G,
                           [exists |-> TRUE,
                            source_dir |-> config_get(file, "source_dir", EmptyPath),
                            dest_dir |-> config_get(file, "dest_dir", EmptyPath),
                            excluded_exact |-> config_get(file, "excluded_exact",
                                                          DEFAULT_EXCLUDED_FOLDERS_EXACT),
                            excluded_prefix |-> config_get(file, "excluded_prefix",
                                                           DEFAULT_EXCLUDED_FOLDERS_PREFIX),
                            append_timestamp |-> config_get(file, "append_timestamp", FALSE)])]

\* The call of line 546.
ConfigLoad ==
    /\ c_out.pc = "idle"
    /\ c_out' = load_config_file(GlobalsAtImport, c_file)
    /\ UNCHANGED c_file

(***************************************************************************)
(* The controller: initial state                                           *)
(***************************************************************************)

\* The state when mainloop starts: load_config() of the config.json found,
\* the widgets as created (copy and preview disabled), then
\* reset_calculation().
InitialGlobals(cfg) == reset_calculation(load_config(GlobalsAtImport, cfg))

\* The config.json an earlier session left after both folders were chosen.
SavedConfig ==
    [NoConfigFile EXCEPT !.exists = TRUE, !.source_dir = PathA, !.dest_dir = PathD]

\* The program starts without a config.json, or with the one of an earlier
\* session.
StartConfigs == {NoConfigFile, SavedConfig}

EditorClosed(closed_by) ==
    [open |-> FALSE, exact |-> <<>>, prefix |-> <<>>, closed_by |-> closed_by]

MainStart(cfg) ==
    /\ g = InitialGlobals(cfg)
    /\ config_file = cfg
    /\ editor = EditorClosed("never")
    /\ builds = <<>>
    /\ copies = <<>>
    /\ after_queue = <<>>
    /\ dest_files = {}
    /\ clock = 1
    /\ last_error = "none"
    /\ plan_build = 0

MainInit == \E cfg \in StartConfigs : MainStart(cfg)

(***************************************************************************)
(* The controller: actions of the main thread                              *)
(***************************************************************************)

other_vars == <<path_vars, walk_vars, progress_vars, config_vars>>

\* An operation of the user, or a tick of the clock.
user_event == events_left > 0 /\ events_left' = events_left - 1

\* The tree os.walk finds under a source folder: /a is the only source
\* folder that exists.
source_tree(source_dir) == ProjectTree

\* What the user may type into the editor's two entries, or select in its
\* two list boxes: "Sub" as an exact name, "s" as a prefix.
EditorItems(target_list) ==
    IF target_list = "excluded_exact_list" THEN {SubTyped} ELSE {<<"s">>}


in_flight(thread) == thread.pc # "done"

\* select_directory, lines 70-78, when the dialog returns a folder.  The
\* editor window holds the grab while it is open, so the main window's
\* buttons do not react then.
select_directory(dir_var, directory) ==
    /\ ~editor.open
    /\ LET G1 == reset_calculation([g EXCEPT ![dir_var] = directory])
       IN  g' = G1 /\ config_file' = save_config(G1)
    /\ plan_build' = 0
    /\ last_error' = "none"
    /\ user_event
    /\ UNCHANGED <<other_vars, editor, builds, copies, after_queue, dest_files, clock>>

SelectSource == \E directory \in SourceChoices : select_directory("source_dir", directory)

SelectDest == \E directory \in DestChoices : select_directory("dest_dir", directory)

\* The user edits the text of an entry, lines 557 and 565: the Tk variable
\* changes and no handler runs.
type_directory(dir_var, text) ==
    /\ ~editor.open
    /\ g[dir_var] # text
    /\ g' = [g EXCEPT ![dir_var] = text]
    /\ last_error' = "none"
    /\ user_event
    /\ UNCHANGED <<other_vars, config_file, editor, builds, copies, after_queue, dest_files, clock,
                   plan_build>>

TypeSource == \E text \in SourceTexts : type_directory("source_dir", text)

TypeDest == \E text \in DestTexts : type_directory("dest_dir", text)

\* The append-timestamp check button: the variable flips, command=save_config.
ToggleTimestamp ==
    /\ ~editor.open
    /\ LET G1 == [g EXCEPT !.append_timestamp = ~@]
       IN  g' = G1 /\ config_file' = save_config(G1)
    /\ last_error' = "none"
    /\ user_event
    /\ UNCHANGED <<other_vars, editor, builds, copies, after_queue, dest_files, clock, plan_build>>

\* Time passes.
Tick ==
    /\ clock < Len(Times)
    /\ clock' = clock + 1
    /\ user_event
    /\ UNCHANGED <<other_vars, g, config_file, editor, builds, copies, after_queue, dest_files,
                   last_error, plan_build>>

\* A calculation thread as started by line 175: the values the closure
\* captured, its walk, and for the record the destination entry's text that
\* line 113 resolved, the rule sets the thread has read so far and whether
\* the rules were changed and saved after it read them.
new_build(source_dir, dest_dir, actual_dest_dir, ignore_exclusions) ==
    [pc |-> "walk", source_dir |-> source_dir, dest_dir |-> dest_dir,
     actual_dest_dir |-> actual_dest_dir,
     ignore_exclusions |-> ignore_exclusions, walk |-> new_walk,
     rules_read |-> {}, stale |-> FALSE]

\* _start_file_calculation, lines 109-176: an error box and nothing else
\* when a check fails, else the reset of lines 131-145 and a new thread.
_start_file_calculation(ignore_exclusions, mode) ==
    /\ ~editor.open
    /\ LET source_dir      == g.source_dir
           actual_dest_dir == get_actual_dest_dir(g.dest_dir, g.append_timestamp, Times[clock])
           verdict         == validate(source_dir, actual_dest_dir, isdir(source_dir))
       IN  IF verdict = "start"
           THEN /\ g' = begin_calculation(g, mode)
                /\ builds' = Append(builds, new_build(source_dir, g.dest_dir, actual_dest_dir,
                                                     ignore_exclusions))
                /\ plan_build' = 0
                /\ last_error' = "none"
           ELSE /\ last_error' = verdict
                /\ UNCHANGED <<g, builds, plan_build>>
    /\ user_event
    /\ UNCHANGED <<other_vars, config_file, editor, copies, after_queue, dest_files, clock>>

\* calculate_files_to_copy and calculate_files_for_full_copy, the commands of
\* the two calculate buttons.
calculate_files_to_copy ==
    g.calculate_button /\ _start_file_calculation(FALSE, "selective")

calculate_files_for_full_copy ==
    g.calculate_full_button /\ _start_file_calculation(TRUE, "full")

\* A copy thread as started by line 267.  files is what enumerate() iterates
\* (empty until the thread has read files_to_copy_list), i the number of
\* iterations made.  For the record: the plan and destination start_copying
\* confirmed, the entry that failed, and what the main thread has run of
\* this thread's callbacks (the counts reported, the terminal signals).
new_copy(plan, actual_dest_dir) ==
    [pc |-> "start", files |-> <<>>, i |-> 0, copied_count |-> 0,
     plan |-> plan, actual_dest_dir |-> actual_dest_dir, failed_at |-> 0,
     delivered |-> <<>>, terminals |-> <<>>]

\* start_copying, lines 216-268, when the user confirms.
start_copying ==
    /\ ~editor.open
    /\ g.copy_button
    /\ g.files_to_copy_list # <<>>
    /\ get_actual_dest_dir(g.dest_dir, g.append_timestamp, Times[clock]) # None
    /\ g' = begin_copying(g)
    /\ copies' = Append(copies, new_copy(g.files_to_copy_list,
                    get_actual_dest_dir(g.dest_dir, g.append_timestamp, Times[clock])))
    /\ last_error' = "none"
    /\ user_event
    /\ UNCHANGED <<other_vars, config_file, editor, builds, after_queue, dest_files, clock, plan_build>>

\* show_exclusion_editor, lines 407-416: the modal window opens.  Its button
\* is never disabled.
show_exclusion_editor ==
    /\ ~editor.open
    /\ editor' = [open |-> TRUE, exact |-> g.excluded_exact_list,
                  prefix |-> g.excluded_prefix_list, closed_by |-> "never"]
    /\ last_error' = "none"
    /\ user_event
    /\ UNCHANGED <<other_vars, g, config_file, builds, copies, after_queue, dest_files, clock, plan_build>>

in_list(item, a_list) == \E i \in 1..Len(a_list) : a_list[i] = item

\* add_item, lines 425-431, for an item not yet in the list: the list is
\* changed in place and the lower-cased sets follow at once.
add_item(target_list) ==
    /\ editor.open
    /\ \E item \in EditorItems(target_list) :
        /\ ~in_list(item, g[target_list])
        /\ g' = update_lower_sets([g EXCEPT ![target_list] = Append(@, item)])
    /\ last_error' = "none"
    /\ user_event
    /\ UNCHANGED <<other_vars, config_file, editor, builds, copies, after_queue, dest_files, clock, plan_build>>

\* remove_selected, lines 437-448, with one item selected.
remove_selected(target_list) ==
    /\ editor.open
    /\ \E item \in EditorItems(target_list) :
        /\ in_list(item, g[target_list])
        /\ g' = update_lower_sets(
                    [g EXCEPT ![target_list] = SelectSeq(@, LAMBDA x : x # item)])
    /\ last_error' = "none"
    /\ user_event
    /\ UNCHANGED <<other_vars, config_file, editor, builds, copies, after_queue, dest_files, clock, plan_build>>

\* The rule sets is_excluded reads at this moment.
rules_now(G) == <<G.EXCLUDED_FOLDERS_EXACT_LOWER, G.EXCLUDED_FOLDERS_PREFIX_LOWER>>

\* save_and_close, lines 450-457.  For the record, a thread still in flight
\* that has read rule sets other than the ones saved now is marked stale
\* when the lists differ from those the editor opened with.
save_and_close ==
    /\ editor.open
    /\ config_file' = save_config(g)
    /\ editor' = EditorClosed("save_and_close")
    /\ LET had_result == g.total_files_count > 0 \/ g.files_to_copy_list # <<>>
           changed == <<g.excluded_exact_list, g.excluded_prefix_list>> # <<editor.exact, editor.prefix>>
       IN  /\ g' = IF had_result
                   THEN [reset_calculation(g) EXCEPT !.status_label = Status("rules_changed", 0, 0)]
                   ELSE g
           /\ plan_build' = IF had_result THEN 0 ELSE plan_build
           /\ builds' = [b \in DOMAIN builds |->
                            IF changed /\ in_flight(builds[b])
                               /\ builds[b].rules_read \ {rules_now(g)} # {}
                            THEN [builds[b] EXCEPT !.stale = TRUE]
                            ELSE builds[b]]
    /\ last_error' = "none"
    /\ user_event
    /\ UNCHANGED <<other_vars, copies, after_queue, dest_files, clock>>

\* cancel_and_close, lines 459-462.
cancel_and_close ==
    /\ editor.open
    /\ g' = load_config(g, config_file)
    /\ editor' = [EditorClosed("cancel_and_close") EXCEPT !.exact = g.excluded_exact_list,
                                                           !.prefix = g.excluded_prefix_list]
    /\ last_error' = "none"
    /\ user_event
    /\ UNCHANGED <<other_vars, config_file, builds, copies, after_queue, dest_files, clock, plan_build>>

\* The user closes the editor with the window's close button: the Toplevel
\* of line 411 has no handler for it, so the window goes and the lists stay
\* as edited, unsaved.
close_editor_window ==
    /\ editor.open
    /\ editor' = EditorClosed("window")
    /\ last_error' = "none"
    /\ user_event
    /\ UNCHANGED <<other_vars, g, config_file, builds, copies, after_queue, dest_files, clock,
                   plan_build>>

(***************************************************************************)
(* The controller: the calculation thread                                  *)
(***************************************************************************)

\* One iteration of the loop of line 153 in thread b, reading the rule sets
\* as they are now.
calculation_step(b) ==
    /\ builds[b].pc = "walk"
    /\ builds[b].walk.stack # <<>>
    /\ LET t == builds[b]
           tree == source_tree(t.source_dir)
           reads == ~t.ignore_exclusions /\ children(tree, Head(t.walk.stack)) # <<>>
       IN  builds' = [builds EXCEPT ![b] =
                [t EXCEPT !.walk = walk_step(tree, t.walk, t.source_dir, t.actual_dest_dir,
                                     t.ignore_exclusions,
                                     g.EXCLUDED_FOLDERS_EXACT_LOWER,
                                     g.EXCLUDED_FOLDERS_PREFIX_LOWER),
                          !.rules_read = IF reads THEN @ \cup {rules_now(g)} ELSE @]]
    /\ UNCHANGED <<other_vars, g, config_file, editor, copies, after_queue, dest_files, clock, events_left,
                   last_error, plan_build>>

\* The walk is over: line 168 hands the list and the count to the main thread.
calculation_end(b) ==
    /\ builds[b].pc = "walk"
    /\ builds[b].walk.stack = <<>>
    /\ after_queue' = Append(after_queue,
            Callback("update_calculation_result", b,
                     builds[b].walk.temp_file_list, builds[b].walk.count))
    /\ builds' = [builds EXCEPT ![b].pc = "posted"]
    /\ UNCHANGED <<other_vars, g, config_file, editor, copies, dest_files, clock, events_left, last_error, plan_build>>

\* An exception in the thread: line 172 hands the error to the main thread.
calculation_raise(b) ==
    /\ builds[b].pc = "walk"
    /\ after_queue' = Append(after_queue, Callback("handle_calculation_error", b, <<>>, NoCount))
    /\ builds' = [builds EXCEPT ![b].pc = "posted"]
    /\ UNCHANGED <<other_vars, g, config_file, editor, copies, dest_files, clock, events_left, last_error, plan_build>>

(***************************************************************************)
(* The controller: the copy thread                                         *)
(***************************************************************************)

\* The thread starts its loop: enumerate(files_to_copy_list) reads the global.
copy_begin(c) ==
    /\ copies[c].pc = "start"
    /\ copies' = [copies EXCEPT ![c].pc = "loop", ![c].files = g.files_to_copy_list]
    /\ UNCHANGED <<other_vars, g, config_file, editor, builds, after_queue, dest_files, clock, events_left,
                   last_error, plan_build>>

\* The iteration without line 250.
copy_step_uncounted(c) ==
    /\ copies[c].pc = "loop"
    /\ copies[c].i < Len(copies[c].files)
    /\ LET t == copies[c]
       IN  /\ dest_files' = dest_files \cup {t.files[t.i + 1].dst}
           /\ copies' = [copies EXCEPT ![c].i = t.i + 1]
           /\ after_queue' = IF reports_progress(t.i, g.total_files_count)
                             THEN Append(after_queue,
                                         Callback("update_progress", c, <<>>, t.copied_count))
                             ELSE after_queue
    /\ UNCHANGED <<other_vars, g, config_file, editor, builds, clock, events_left, last_error,
                   plan_build>>

\* One iteration in which makedirs and copy2 succeed, lines 242-256.
copy_step(c) ==
    /\ copies[c].pc = "loop"
    /\ copies[c].i < Len(copies[c].files)
    /\ LET t == copies[c]
           copied_count == t.copied_count + 1
       IN  /\ dest_files' = dest_files \cup {t.files[t.i + 1].dst}
           /\ copies' = [copies EXCEPT ![c].i = t.i + 1, ![c].copied_count = copied_count]
           /\ after_queue' = IF reports_progress(t.i, g.total_files_count)
                             THEN Append(after_queue, Callback("update_progress", c, <<>>, copied_count))
                             ELSE after_queue
    /\ UNCHANGED <<other_vars, g, config_file, editor, builds, clock, events_left, last_error, plan_build>>

\* An iteration in which makedirs or copy2 raises: the loop is left and
\* line 263 hands the error to the main thread.
copy_raise_then(c, pc_after) ==
    /\ copies[c].pc = "loop"
    /\ copies[c].i < Len(copies[c].files)
    /\ copies' = [copies EXCEPT ![c].pc = pc_after,
                                ![c].failed_at = IF @ = 0 THEN copies[c].i + 1 ELSE @,
                                ![c].i = IF pc_after = "loop" THEN @ + 1 ELSE @]
    /\ after_queue' = Append(after_queue, Callback("show_error_and_reset", c, <<>>, NoCount))
    /\ UNCHANGED <<other_vars, g, config_file, editor, builds, dest_files, clock, events_left, last_error, plan_build>>

\* The handler of line 261 inside the loop: the error is reported and the
\* loop goes on with the next entry.
copy_raise_and_continue(c) == copy_raise_then(c, "loop")

copy_raise(c) == copy_raise_then(c, "posted")

\* The loop is exhausted: line 259.
copy_end(c) ==
    /\ copies[c].pc = "loop"
    /\ copies[c].i = Len(copies[c].files)
    /\ copies' = [copies EXCEPT ![c].pc = "posted"]
    /\ after_queue' = Append(after_queue, Callback("show_copy_complete", c, <<>>, NoCount))
    /\ UNCHANGED <<other_vars, g, config_file, editor, builds, dest_files, clock, events_left, last_error, plan_build>>

(***************************************************************************)
(* The controller: callbacks run by the main thread                        *)
(***************************************************************************)

\* The main thread runs the oldest callback; it does so while the editor is
\* open too (wait_window runs the event loop).
run_update_calculation_result ==
    /\ after_queue # <<>>
    /\ Head(after_queue).kind = "update_calculation_result"
    /\ LET cb == Head(after_queue)
       IN  /\ g' = update_calculation_result(g, cb.fl, cb.c)
           /\ builds' = [builds EXCEPT ![cb.run].pc = "done"]
           /\ plan_build' = cb.run
    /\ after_queue' = Tail(after_queue)
    /\ last_error' = "none"
    /\ UNCHANGED <<other_vars, config_file, editor, copies, dest_files, clock, events_left>>

run_handle_calculation_error ==
    /\ after_queue # <<>>
    /\ Head(after_queue).kind = "handle_calculation_error"
    /\ g' = handle_calculation_error(g)
    /\ builds' = [builds EXCEPT ![Head(after_queue).run].pc = "done"]
    /\ plan_build' = 0
    /\ after_queue' = Tail(after_queue)
    /\ last_error' = "walk"
    /\ UNCHANGED <<other_vars, config_file, editor, copies, dest_files, clock, events_left>>

\* The lambda of line 256 reads total_files_count when it runs.
run_update_progress ==
    /\ after_queue # <<>>
    /\ Head(after_queue).kind = "update_progress"
    /\ LET cb == Head(after_queue)
       IN  /\ g' = update_progress(g, cb.c, g.total_files_count)
           /\ copies' = [copies EXCEPT ![cb.run].delivered = Append(@, cb.c)]
    /\ after_queue' = Tail(after_queue)
    /\ last_error' = "none"
    /\ UNCHANGED <<other_vars, config_file, editor, builds, dest_files, clock, events_left, plan_build>>

run_show_copy_complete ==
    /\ after_queue # <<>>
    /\ Head(after_queue).kind = "show_copy_complete"
    /\ g' = show_copy_complete(g)
    /\ copies' = [copies EXCEPT ![Head(after_queue).run] =
                    [@ EXCEPT !.pc = IF copies[Head(after_queue).run].pc = "posted" THEN "done" ELSE @,
                              !.terminals = Append(@, "complete")]]
    /\ after_queue' = Tail(after_queue)
    /\ last_error' = "none"
    /\ UNCHANGED <<other_vars, config_file, editor, builds, dest_files, clock, events_left, plan_build>>

run_show_error_and_reset ==
    /\ after_queue # <<>>
    /\ Head(after_queue).kind = "show_error_and_reset"
    /\ g' = show_error_and_reset(g)
    /\ copies' = [copies EXCEPT ![Head(after_queue).run] =
                    [@ EXCEPT !.pc = IF copies[Head(after_queue).run].pc = "posted" THEN "done" ELSE @,
                              !.terminals = Append(@, "error")]]
    /\ plan_build' = 0
    /\ after_queue' = Tail(after_queue)
    /\ last_error' = "copy"
    /\ UNCHANGED <<other_vars, config_file, editor, builds, dest_files, clock, events_left>>

Next ==
    \/ SelectSource
    \/ SelectDest
    \/ TypeSource
    \/ TypeDest
    \/ ToggleTimestamp
    \/ Tick
    \/ calculate_files_to_copy
    \/ calculate_files_for_full_copy
    \/ start_copying
    \/ show_exclusion_editor
    \/ add_item("excluded_exact_list")
    \/ add_item("excluded_prefix_list")
    \/ remove_selected("excluded_exact_list")
    \/ remove_selected("excluded_prefix_list")
    \/ save_and_close
    \/ cancel_and_close
    \/ close_editor_window
    \/ \E b \in DOMAIN builds : calculation_step(b)
    \/ \E b \in DOMAIN builds : calculation_end(b)
    \/ \E b \in DOMAIN builds : calculation_raise(b)
    \/ \E c \in DOMAIN copies : copy_begin(c)
    \/ \E c \in DOMAIN copies : copy_step(c)
    \/ \E c \in DOMAIN copies : copy_raise(c)
    \/ \E c \in DOMAIN copies : copy_end(c)
    \/ run_update_calculation_result
    \/ run_handle_calculation_error
    \/ run_update_progress
    \/ run_show_copy_complete
    \/ run_show_error_and_reset

(***************************************************************************)
(* Specifications                                                          *)
(***************************************************************************)

vars == <<g, config_file, editor, builds, copies, after_queue, dest_files,
          clock, events_left, last_error, plan_build, path_vars, walk_vars, progress_vars,
          config_vars>>

Init == MainInit /\ events_left = MaxEvents /\ PathIdle /\ WalkIdle /\ ProgressIdle /\ ConfigIdle
Spec == Init /\ [][Next]_vars

\* The same program in behaviours of at most MaxEventsErr events.
InitErr ==
    MainInit /\ events_left = MaxEventsErr /\ PathIdle /\ WalkIdle /\ ProgressIdle /\ ConfigIdle
SpecErr == InitErr /\ [][Next]_vars

\* The steps of the daemon threads, and the callbacks the Tk event loop runs.
WorkerStep ==
    \/ \E b \in DOMAIN builds :
          calculation_step(b) \/ calculation_end(b) \/ calculation_raise(b)
    \/ \E c \in DOMAIN copies :
          copy_begin(c) \/ copy_step(c) \/ copy_raise(c) \/ copy_end(c)

RunCallback ==
    \/ run_update_calculation_result
    \/ run_handle_calculation_error
    \/ run_update_progress
    \/ run_show_copy_complete
    \/ run_show_error_and_reset

\* SpecErr with threads that are scheduled and an event loop that runs: a
\* thread that can step does step, a queued callback is run.
SpecLive == InitErr /\ [][Next]_vars /\ WF_vars(WorkerStep) /\ WF_vars(RunCallback)

PathInit ==
    MainStart(NoConfigFile) /\ events_left = 0 /\ InitPath /\ WalkIdle /\ ProgressIdle /\ ConfigIdle
PathNext == PathRequest /\ UNCHANGED <<main_vars, walk_vars, progress_vars, config_vars>>
SpecPath == PathInit /\ [][PathNext]_vars

WalkInit ==
    MainStart(NoConfigFile) /\ events_left = 0 /\ PathIdle /\ InitWalk /\ ProgressIdle /\ ConfigIdle
WalkNext ==
    \/ WalkStep /\ UNCHANGED <<main_vars, path_vars, progress_vars, config_vars>>
    \/ WalkEnd /\ UNCHANGED <<main_vars, path_vars, progress_vars, config_vars>>
SpecWalk == WalkInit /\ [][WalkNext]_vars

ProgressInit ==
    MainStart(NoConfigFile) /\ events_left = 0 /\ PathIdle /\ WalkIdle /\ InitProgress /\ ConfigIdle
ProgressNext ==
    \/ ProgressStep /\ UNCHANGED <<main_vars, path_vars, walk_vars, config_vars>>
    \/ ProgressEnd /\ UNCHANGED <<main_vars, path_vars, walk_vars, config_vars>>
SpecProgress == ProgressInit /\ [][ProgressNext]_vars

ConfigInit ==
    MainStart(NoConfigFile) /\ events_left = 0 /\ PathIdle /\ WalkIdle /\ ProgressIdle /\ InitConfig
ConfigNext == ConfigLoad /\ UNCHANGED <<main_vars, path_vars, walk_vars, progress_vars>>
SpecConfig == ConfigInit /\ [][ConfigNext]_vars

(***************************************************************************)
(* C1, C2                                                                  *)
(***************************************************************************)

\* The directories on the way from the root to d, the root left out.
RECURSIVE folders_to(_, _)
folders_to(tree, d) ==
    IF d = 1 THEN {} ELSE {d} \cup folders_to(tree, tree.parent[d])

\* The relative paths of the files that lie below no excluded folder.
unexcluded_files(tree, EXACT_LOWER, PREFIX_LOWER) ==
    {Append(rel_dir(tree, d), tree.files[d][i]) :
        <<d, i>> \in {x \in Dirs(tree) \X (1..1) :
            /\ x[2] <= Len(tree.files[x[1]])
            /\ \A a \in folders_to(tree, x[1]) :
                ~is_excluded(tree.name[a], EXACT_LOWER, PREFIX_LOWER)}}

all_files(tree) ==
    {Append(rel_dir(tree, d), tree.files[d][1]) : d \in {x \in Dirs(tree) : tree.files[x] # <<>>}}

plan_paths(plan) == {plan[i].src[2] : i \in 1..Len(plan)}

\* C1: when a walk has ended, the plan lists each file once, with its source
\* under the source root and its destination at the same relative path under
\* the destination root, and the files listed are: in selective mode exactly
\* those below no folder for which is_excluded is true, in full mode every
\* file of the tree.  For the tree {file1.txt, .git/config,
\* node_modules/pkg/index.js, sub/file2.txt} and the default rules that is 2
\* entries in selective mode and 4 in full mode.
C1_PlanIsTheUnexcludedFiles ==
    w_done =>
        LET plan == w_walk.temp_file_list
            E == lower_set(w_in.exact)
            P == lower_set(w_in.prefix)
        IN  /\ w_walk.count = Len(plan)
            /\ Cardinality(plan_paths(plan)) = Len(plan)
            /\ \A i \in 1..Len(plan) :
                /\ plan[i].src[1] = PathA /\ plan[i].dst[1] = PathD
                /\ plan[i].dst[2] = plan[i].src[2]
            /\ ~w_in.ignore => plan_paths(plan) = unexcluded_files(w_in.tree, E, P)
            /\ w_in.ignore => plan_paths(plan) = all_files(w_in.tree)
            /\ (w_in.tree = ExampleTree /\ w_in.exact = DEFAULT_EXCLUDED_FOLDERS_EXACT
                /\ w_in.prefix = DEFAULT_EXCLUDED_FOLDERS_PREFIX)
               => w_walk.count = IF w_in.ignore THEN 4 ELSE 2

\* A selective walk has ended that pruned a file two folders below the root,
\* under an excluded folder whose own name is excluded and whose child's is not.
C1_Witness ==
    /\ w_done /\ ~w_in.ignore
    /\ w_walk.count >= 1
    /\ \E d \in Dirs(w_in.tree) :
        /\ d # 1 /\ w_in.tree.parent[d] # 1 /\ w_in.tree.files[d] # <<>>
        /\ ~is_excluded(w_in.tree.name[d], lower_set(w_in.exact), lower_set(w_in.prefix))
        /\ is_excluded(w_in.tree.name[w_in.tree.parent[d]], lower_set(w_in.exact), lower_set(w_in.prefix))
        /\ Append(rel_dir(w_in.tree, d), w_in.tree.files[d][1]) \notin plan_paths(w_walk.temp_file_list)

\* Whether the components of a are the first components of b.
is_prefix_of(a, b) == Len(a) <= Len(b) /\ \A i \in 1..Len(a) : a[i] = b[i]

\* Whether dst names src itself or something below it, component by component.
same_or_below(src, dst) ==
    \/ dst = src
    \/ /\ dst.drive = src.drive
       /\ isabs(dst) = isabs(src)
       /\ is_prefix_of(components(src), components(dst))

\* C2: a request whose source is an existing folder and whose destination is
\* set is refused before any worker starts exactly when the effective
\* destination is the source or lies below it, component by component;
\* src, src and src, src/sub are refused, and a sibling whose name only
\* begins like the source's, an ancestor of the source and a destination on
\* another volume are accepted.
C2_RefusedIffNested ==
    (p_out # "idle" /\ p_in.isdir /\ ~IsEmptyStr(p_in.src) /\ ~IsEmptyStr(p_in.dst)) =>
        LET actual == get_actual_dest_dir(p_in.dst, p_in.flag, Times[p_in.t])
            src == p_in.src
        IN  /\ p_out \in {"nested", "start"}
            /\ p_out = "nested" <=> same_or_below(src, actual)
            /\ actual = src => p_out = "nested"
            /\ actual = join(src, <<"a">>) => p_out = "nested"
            /\ (actual.drive = src.drive /\ actual.text = src.text \o <<"a">>
                /\ src.text # <<>> /\ src.text[Len(src.text)] \notin {"/", "."})
               => p_out = "start"
            /\ (actual # src /\ components(actual) # components(src)
                /\ is_prefix_of(components(actual), components(src)))
               => p_out = "start"
            /\ actual.drive # src.drive => p_out = "start"

\* A request with the timestamp on was refused because the effective
\* destination lies below the source although the two texts differ.
C2_Witness ==
    /\ p_out = "nested" /\ p_in.flag
    /\ p_in.src # get_actual_dest_dir(p_in.dst, p_in.flag, Times[p_in.t])
    /\ Len(components(p_in.src)) >= 1

(***************************************************************************)
(* C3 - C6: the workers in flight                                          *)
(***************************************************************************)

\* The calculation threads, and the copy threads, whose result or error the
\* main thread has not run yet.
builds_in_flight == {b \in DOMAIN builds : in_flight(builds[b])}

copies_in_flight == {c \in DOMAIN copies : in_flight(copies[c])}

\* C3: in every reachable state at most one calculation thread is in flight:
\* none is started while an earlier one has not delivered its result or its
\* error.
C3_OneBuildInFlight == Cardinality(builds_in_flight) <= 1

\* C4: in every reachable state at most one copy thread is in flight:
\* start_copying starts none while an earlier one has not delivered its
\* completion or its failure.
C4_OneCopyInFlight == Cardinality(copies_in_flight) <= 1

\* C5: in a step during which a copy thread stays in flight, nobody writes
\* files_to_copy_list or total_files_count: no calculation starts, no result
\* is installed, no reset clears the plan.
C5_PlanUnwrittenDuringCopy ==
    [][(\E c \in DOMAIN copies : in_flight(copies[c]) /\ in_flight(copies'[c]))
        => /\ g'.files_to_copy_list = g.files_to_copy_list
           /\ g'.total_files_count = g.total_files_count]_vars

\* Whether the counts of a sequence of notifications strictly increase.
strictly_increasing(counts) ==
    \A i \in 1..Len(counts) : \A j \in 1..Len(counts) : i < j => counts[i] < counts[j]

\* C6: of every copy run, the progress notifications the main thread has run
\* have strictly increasing counts, the main thread runs at most one terminal
\* signal, and when that is the completion, a notification whose count is the
\* number of entries of the plan start_copying confirmed has run before it.
C6_OrderedProgressOneTerminal ==
    \A c \in DOMAIN copies :
        /\ strictly_increasing(copies[c].delivered)
        /\ Len(copies[c].terminals) <= 1
        /\ copies[c].terminals = <<"complete">> =>
               \E i \in 1..Len(copies[c].delivered) :
                   copies[c].delivered[i] = Len(copies[c].plan)

(***************************************************************************)
(* C7 - C9: errors                                                         *)
(***************************************************************************)

\* Whether the main thread still has to run a callback of this kind of run c.
queued(kind, c) ==
    \E n \in 1..Len(after_queue) : after_queue[n].kind = kind /\ after_queue[n].run = c

\* C7: when entry k of a copy run has failed, the run has left its loop for
\* good: it stands at entry k, entries 1..k-1 are at the destination and stay
\* there, entry k and the later ones are not there (when no other run wrote
\* them), and no completion signal is queued or run for it.
C7_FailureStopsTheRun ==
    \A c \in DOMAIN copies :
        copies[c].failed_at > 0 =>
            LET t == copies[c]
                k == t.failed_at
            IN  /\ t.pc \in {"posted", "done"}
                /\ t.i = k - 1
                /\ \A j \in 1..(k - 1) : t.files[j].dst \in dest_files
                /\ Len(copies) = 1 =>
                       \A j \in k..Len(t.files) : t.files[j].dst \notin dest_files
                /\ \A n \in 1..Len(t.terminals) : t.terminals[n] # "complete"
                /\ ~queued("show_copy_complete", c)

\* Entry 2 of a 3-entry plan failed and the failure was shown: entry 1 is at
\* the destination, entry 3 is not.
C7_Witness ==
    \E c \in DOMAIN copies :
        /\ Len(copies[c].files) = 3 /\ copies[c].failed_at = 2
        /\ copies[c].terminals = <<"error">>
        /\ copies[c].files[1].dst \in dest_files
        /\ copies[c].files[3].dst \notin dest_files

CleanIdle(G) ==
    /\ G.files_to_copy_list = <<>> /\ G.total_files_count = 0
    /\ ~G.copy_button /\ ~G.preview_button
    /\ G.calculate_button /\ G.calculate_full_button

ValidationErrors == {"unset", "not_dir", "nested"}

WorkerErrors == {"walk", "copy"}

\* C9 as claimed: after every error box the state is the clean idle state.
C9_EveryErrorLeavesCleanIdle ==
    last_error \in ValidationErrors \cup WorkerErrors => CleanIdle(g)

\* C9, amended: the handler that shows a failure of a calculation thread or
\* of a copy thread leaves the clean idle state; a request refused for an
\* empty folder, a source that is no directory or a nested destination shows
\* its box and changes nothing: the plan, the buttons, the threads and the
\* queue stay as they were.
C9_WorkerErrorsResetOthersLeave ==
    [][/\ (last_error' \in WorkerErrors /\ after_queue' # after_queue) => CleanIdle(g')
       /\ (last_error' \in ValidationErrors /\ events_left' # events_left) =>
              /\ g' = g /\ config_file' = config_file
              /\ builds' = builds /\ copies' = copies /\ after_queue' = after_queue]_vars

\* A request was refused for a nested destination while a plan was there:
\* the plan is still there and can be copied.
C9_Witness ==
    /\ last_error = "nested"
    /\ g.files_to_copy_list # <<>> /\ g.total_files_count > 0
    /\ g.copy_button /\ g.preview_button

(***************************************************************************)
(* C10: a change of rules                                                  *)
(***************************************************************************)

\* C10: no plan of a calculation thread that read the rules before they were
\* changed and saved in the editor is there for copy or preview.
C10_NoPlanOfOldRules ==
    ~(/\ plan_build # 0
      /\ builds[plan_build].stale
      /\ g.files_to_copy_list # <<>>
      /\ (g.copy_button \/ g.preview_button))

(***************************************************************************)
(* C11 - C13: the plan, its count and the progress shown                   *)
(***************************************************************************)

\* C11: while the calculation thread started last has delivered neither
\* result nor error, the plan is empty, the count is 0 and the copy and
\* preview buttons are disabled.
C11_NoPlanWhileLatestBuildRuns ==
    (builds # <<>> /\ in_flight(builds[Len(builds)])) =>
        /\ g.files_to_copy_list = <<>> /\ g.total_files_count = 0
        /\ ~g.copy_button /\ ~g.preview_button

\* C12: in every reachable state total_files_count is the length of
\* files_to_copy_list.
C12_CountIsLengthOfPlan == g.total_files_count = Len(g.files_to_copy_list)

\* The second calculation of a behaviour, a full one, has delivered its three
\* entries.
C12_Witness ==
    /\ g.total_files_count = 3 /\ Len(g.files_to_copy_list) = 3
    /\ g.last_calculation_mode = "full"
    /\ plan_build = 2

\* C13: what update_progress shows during a copy never has more files copied
\* than the total shown with it, and of one run the counts shown never
\* decrease.
C13_ShownCopiedAtMostTotal ==
    /\ g.status_label.kind = "copying" => g.status_label.copied <= g.status_label.total
    /\ \A c \in DOMAIN copies :
           \A i \in 1..Len(copies[c].delivered) : \A j \in 1..Len(copies[c].delivered) :
               i < j => copies[c].delivered[i] <= copies[c].delivered[j]

\* C19: a stored plan with the copy button enabled was built from the source
\* and destination folders selected now.
C19_PlanIsOfSelectedFolders ==
    (g.files_to_copy_list # <<>> /\ g.copy_button /\ plan_build # 0) =>
        /\ builds[plan_build].source_dir = g.source_dir
        /\ builds[plan_build].dest_dir = g.dest_dir

\* C20: the destination start_copying shows in its confirmation is the
\* folder under which every entry of the plan it starts is written.
C20_ConfirmedDestinationIsPlanRoot ==
    \A c \in DOMAIN copies :
        \A i \in 1..Len(copies[c].plan) :
            copies[c].plan[i].dst[1] = copies[c].actual_dest_dir

\* The folder names is_excluded is asked about: the default exact names,
\* one-letter names, and the names ?u? around "sub" in either case.
ProbeNames ==
    {Git, NodeModules}
    \cup {<<c>> : c \in {"s", "S", "u"}}
    \cup {<<c, "u", d>> : c \in {"s", "S", "b"}, d \in {"b", "B", "s"}}

\* The names that differ from n in the case of letters only.
Casings(n) == {m \in ProbeNames : lower(m) = lower(n)}

\* C15: with the rule sets as load_config and the editor leave them,
\* is_excluded gives a name and its lower-cased form the same answer, and it
\* excludes every casing of every name in the exact list.
C15_MatchingIgnoresCase ==
    LET excluded(n) == is_excluded(n, g.EXCLUDED_FOLDERS_EXACT_LOWER,
                                   g.EXCLUDED_FOLDERS_PREFIX_LOWER)
    IN  /\ \A n \in ProbeNames : excluded(n) = excluded(lower(n))
        /\ \A i \in 1..Len(g.excluded_exact_list) :
               \A m \in Casings(g.excluded_exact_list[i]) : excluded(m)

\* "Sub" has been added in the editor, no prefix rule has: sub, suB and SuB
\* are excluded by it.
C15_Witness ==
    /\ in_list(SubTyped, g.excluded_exact_list)
    /\ ~in_list(<<"s">>, g.excluded_prefix_list)
    /\ \A m \in {Sub, <<"s", "u", "B">>, <<"S", "u", "B">>} :
           /\ m \in Casings(SubTyped)
           /\ is_excluded(m, g.EXCLUDED_FOLDERS_EXACT_LOWER, g.EXCLUDED_FOLDERS_PREFIX_LOWER)

\* The callbacks a thread posts last: the result or error of a calculation,
\* the completion or failure of a copy.
Delivery ==
    \/ run_update_calculation_result
    \/ run_handle_calculation_error
    \/ run_show_copy_complete
    \/ run_show_error_and_reset

\* How many callbacks of thread number run the queue holds that are of one
\* of the kinds.
RECURSIVE posted_count(_, _, _)
posted_count(queue, kinds, run) ==
    IF queue = <<>> THEN 0
    ELSE (IF Head(queue).kind \in kinds /\ Head(queue).run = run THEN 1 ELSE 0)
         + posted_count(Tail(queue), kinds, run)

\* Every calculation thread started so far has had its result or error run
\* by the main thread, every copy thread its completion or failure.
AllDelivered ==
    /\ \A b \in DOMAIN builds : builds[b].pc = "done"
    /\ \A c \in DOMAIN copies : copies[c].terminals # <<>>

\* C18: with threads that are scheduled and an event loop that runs, every
\* calculation thread started hands over one result or error and the main
\* thread runs it, every copy thread started has its completion or failure
\* run; no thread has more than one of these queued, and the step that runs
\* one leaves a calculate button enabled.  Threads are never forgotten and
\* what was delivered stays delivered, so in behaviours of finitely many
\* user events each thread is delivered eventually exactly when from some
\* moment on all of them are.
C18_EveryRunIsDelivered ==
    /\ <>[]AllDelivered
    /\ [](\A b \in DOMAIN builds :
             posted_count(after_queue, {"update_calculation_result", "handle_calculation_error"}, b)
                 = IF builds[b].pc = "posted" THEN 1 ELSE 0)
    /\ [](\A c \in DOMAIN copies :
             posted_count(after_queue, {"show_copy_complete", "show_error_and_reset"}, c)
                 + Len(copies[c].terminals) <= 1)
    /\ [][Delivery => (g.calculate_button \/ g.calculate_full_button)']_vars

\* A calculation and the copy of its plan have both been delivered.
C18_Witness ==
    /\ Len(builds) = 1 /\ builds[1].pc = "done"
    /\ Len(copies) = 1 /\ copies[1].terminals = <<"complete">>
    /\ after_queue = <<>>
    /\ g.calculate_button /\ g.calculate_full_button

(***************************************************************************)
(* C17                                                                     *)
(***************************************************************************)

\* "20240102_030405", the timestamp of Times[1].
Stamp20240102 ==
    <<"2", "0", "2", "4", "0", "1", "0", "2", "_", "0", "3", "0", "4", "0", "5">>

\* The number of dots a name begins with.
RECURSIVE leading_dots(_)
leading_dots(name) ==
    IF name # <<>> /\ Head(name) = "." THEN 1 + leading_dots(Tail(name)) ELSE 0

\* What is common to both readings of the rule: nothing for an empty
\* destination, the destination itself with the flag off, and with the flag
\* on the name parent/base_timestamp.ext for the last segment cut before
\* position cut (0: no extension); /a/b and /a/b.zip give the two results
\* named.
resolved_with(cut) ==
    LET seg == basename(p_in.dst)
        ext == IF cut = 0 THEN <<>> ELSE SubSeq(seg, cut, Len(seg))
        base == IF cut = 0 THEN seg ELSE SubSeq(seg, 1, cut - 1)
    IN  p_out # "idle" =>
          /\ IsEmptyStr(p_in.dst) => p_dest = None
          /\ (~IsEmptyStr(p_in.dst) /\ ~p_in.flag) => p_dest = p_in.dst
          /\ (~IsEmptyStr(p_in.dst) /\ p_in.flag) =>
                p_dest = join(dirname(p_in.dst), base \o <<"_">> \o strftime(Times[p_in.t]) \o ext)
          /\ (p_in.dst = PathASlashB /\ p_in.flag) =>
                p_dest.text = <<"/", "a", "/", "b", "_">> \o Stamp20240102
          /\ (p_in.dst = PathABZip /\ p_in.flag) =>
                p_dest.text = <<"/", "a", "/", "b", "_">> \o Stamp20240102 \o <<".", "z", "i", "p">>

\* The position of the last dot of a name that is not one of the dots the
\* name begins with, 0 when there is none.
last_inner_dot(name) ==
    LET k == leading_dots(name)
        dot == RFind(SubSeq(name, k + 1, Len(name)), ".")
    IN  IF dot = 0 THEN 0 ELSE k + dot

\* C17 as claimed: the destination resolves as described, the extension
\* being the part of the last segment from its last dot.
C17_ExtensionFromLastDot == resolved_with(RFind(basename(p_in.dst), "."))

\* C17: the destination resolves as described, the extension being the part
\* of the last segment from its last dot when that dot is not one of the
\* dots the segment begins with, and there being no extension otherwise.
C17_ExtensionFromLastInnerDot == resolved_with(last_inner_dot(basename(p_in.dst)))

\* /a/b.zip has been resolved with the flag on.
C17_Witness ==
    /\ p_out # "idle" /\ p_in.dst = PathABZip /\ p_in.flag
    /\ p_dest.text = <<"/", "a", "/", "b", "_">> \o Stamp20240102 \o <<".", "z", "i", "p">>

\* /a/.a has been resolved with the flag on: the name begins with its only
\* dot and the timestamp goes to its end.
C17_WitnessLeadingDot ==
    /\ p_out # "idle" /\ p_in.flag /\ p_in.t = 1
    /\ p_in.dst.text = <<"/", "a", "/", ".">> /\ p_in.dst.drive = ""
    /\ p_dest.text = <<"/", "a", "/", ".", "_">> \o Stamp20240102

(***************************************************************************)
(* C14                                                                     *)
(***************************************************************************)

\* C14 as claimed: a copy of N files that succeeds makes at most 101
\* reports, and its last report has N as its count.
C14_AtMost101Reports ==
    /\ n_run.reports <= UpdateDivisor + 1
    /\ n_run.pc = "posted" => n_run.final_count = n_run.total_files_count

\* C14: a copy of N files that succeeds makes at most 199 reports (one per
\* file when N < 200, at most 150 otherwise), and its last report has N as
\* its count.
C14_AtMost199Reports ==
    /\ n_run.reports <= 2 * UpdateDivisor - 1
    /\ n_run.reports <= n_run.total_files_count
    /\ n_run.total_files_count >= 2 * UpdateDivisor
          => n_run.reports <= UpdateDivisor + UpdateDivisor \div 2
    /\ n_run.pc = "posted" =>
          /\ n_run.reports >= 1
          /\ n_run.final_count = n_run.total_files_count

\* A copy of 199 files has ended after 199 reports, one of 201 files after
\* 101, the last of them for the file left over.
C14_Witness ==
    /\ n_run.pc = "posted"
    /\ \/ n_run.total_files_count = 199 /\ n_run.reports = 199
       \/ n_run.total_files_count = 201 /\ n_run.reports = 101 /\ n_run.final_count = 201

(***************************************************************************)
(* C16                                                                     *)
(***************************************************************************)

\* C16: whatever config.json is, load_config returns without raising, the
\* two rule lists are the file's or, for a key the file does not have, the
\* defaults [.git, node_modules] and [firebase-export-], and the lower-cased
\* sets are those of the lists.
C16_LoadNeverFatal ==
    c_out.pc # "idle" =>
        /\ c_out.pc = "returned" /\ c_out.raised = "none"
        /\ c_out.G.EXCLUDED_FOLDERS_EXACT_LOWER = lower_set(c_out.G.excluded_exact_list)
        /\ c_out.G.EXCLUDED_FOLDERS_PREFIX_LOWER = lower_set(c_out.G.excluded_prefix_list)
        /\ (c_file.kind # "json_object" \/ c_file.excluded_exact.tag = "absent")
              => c_out.G.excluded_exact_list = <<Git, NodeModules>>
        /\ (c_file.kind # "json_object" \/ c_file.excluded_prefix.tag = "absent")
              => c_out.G.excluded_prefix_list = <<FirebaseExport>>

(***************************************************************************)
(* C21                                                                     *)
(***************************************************************************)

\* What cancel_and_close leaves alone: the plan, its count and the buttons.
cancel_keeps_plan ==
    /\ g'.files_to_copy_list = g.files_to_copy_list
    /\ g'.total_files_count = g.total_files_count
    /\ g'.copy_button = g.copy_button /\ g'.preview_button = g.preview_button

\* C21 as claimed: cancel_and_close puts both rule lists and both lower-cased
\* sets back to what they were when the editor opened and leaves the two
\* paths, the timestamp flag and the plan as they are.
C21_CancelRestoresStateAtOpen ==
    [][cancel_and_close =>
        /\ g'.excluded_exact_list = editor.exact
        /\ g'.excluded_prefix_list = editor.prefix
        /\ g'.EXCLUDED_FOLDERS_EXACT_LOWER = lower_set(editor.exact)
        /\ g'.EXCLUDED_FOLDERS_PREFIX_LOWER = lower_set(editor.prefix)
        /\ g'.source_dir = g.source_dir /\ g'.dest_dir = g.dest_dir
        /\ g'.append_timestamp = g.append_timestamp
        /\ cancel_keeps_plan]_vars

\* C21: cancel_and_close puts both rule lists back to those of config.json as
\* saved last (the defaults when there is no file) and the lower-cased sets
\* to theirs, puts each path back to the saved one when that is an existing
\* folder and leaves it otherwise, and leaves the timestamp flag and the plan
\* as they are; the lists are those of the moment the editor opened when
\* they were as saved then.
C21_CancelRestoresSavedState ==
    [][cancel_and_close =>
        /\ g'.excluded_exact_list = config_file.excluded_exact
        /\ g'.excluded_prefix_list = config_file.excluded_prefix
        /\ g'.EXCLUDED_FOLDERS_EXACT_LOWER = lower_set(config_file.excluded_exact)
        /\ g'.EXCLUDED_FOLDERS_PREFIX_LOWER = lower_set(config_file.excluded_prefix)
        /\ ~config_file.exists =>
              /\ g'.excluded_exact_list = <<Git, NodeModules>>
              /\ g'.excluded_prefix_list = <<FirebaseExport>>
        /\ g'.source_dir = IF config_file.source_dir # EmptyPath /\ isdir(config_file.source_dir)
                           THEN config_file.source_dir ELSE g.source_dir
        /\ g'.dest_dir = IF config_file.dest_dir # EmptyPath /\ isdir(config_file.dest_dir)
                         THEN config_file.dest_dir ELSE g.dest_dir
        /\ g'.append_timestamp = g.append_timestamp
        /\ cancel_keeps_plan
        /\ (editor.exact = config_file.excluded_exact
              /\ editor.prefix = config_file.excluded_prefix) =>
              /\ g'.excluded_exact_list = editor.exact
              /\ g'.excluded_prefix_list = editor.prefix]_vars

\* The editor has been cancelled with "Sub" added to its list: the list and
\* the set are without it again.
C21_Witness ==
    /\ ~editor.open /\ editor.closed_by = "cancel_and_close"
    /\ in_list(SubTyped, editor.exact)
    /\ ~in_list(SubTyped, g.excluded_exact_list)
    /\ Sub \notin g.EXCLUDED_FOLDERS_EXACT_LOWER

====
